---- MODULE Spec2Model ----
(***************************************************************************)
(* OGRGeometryFactory (ogr/ogrgeometryfactory.cpp): createFromWkb,         *)
(* createFromWkt, createGeometry, destroyGeometry, forceToPolygon and      *)
(* forceToMultiPolygon, over a heap of geometry objects owned by a caller. *)
(***************************************************************************)
EXTENDS Integers, Sequences, FiniteSets, TLC

\* ------------------------------------------------------------------ bounds
\* Largest number of rings the delegated importers put in one polygon.
MaxRings == 3
\* Largest number of children the delegated importers put in one container.
MaxKids == 2
\* Largest declared byte count passed to createFromWkb (-1 .. MaxNBytes).
MaxNBytes == 9

\* --------------------------------------------------------------- constants
NULL == 0

\* OGRErr codes (ogr_core.h).
OGRERR_NONE == "OGRERR_NONE"
OGRERR_NOT_ENOUGH_DATA == "OGRERR_NOT_ENOUGH_DATA"
OGRERR_UNSUPPORTED_GEOMETRY_TYPE == "OGRERR_UNSUPPORTED_GEOMETRY_TYPE"
OGRERR_CORRUPT_DATA == "OGRERR_CORRUPT_DATA"
OGRERR_NOT_ENOUGH_MEMORY == "OGRERR_NOT_ENOUGH_MEMORY"

\* OGRwkbByteOrder (ogr_core.h).
wkbXDR == 0
wkbNDR == 1

\* OGRwkbGeometryType (ogr_core.h).
wkbPoint == 1
wkbLineString == 2
wkbPolygon == 3
wkbMultiPoint == 4
wkbMultiLineString == 5
wkbMultiPolygon == 6
wkbGeometryCollection == 7
wkb25DBit == 32768

SevenKinds ==
    { wkbPoint, wkbLineString, wkbPolygon, wkbMultiPoint,
      wkbMultiLineString, wkbMultiPolygon, wkbGeometryCollection }

\* wkbFlatten(x) is ((x) & (~wkb25DBit)): clear the 2.5D bit, keep the rest.
wkbFlatten(x) == x - ((x \div wkb25DBit) % 2) * wkb25DBit

\* The value of nBytes that stands for "not known" (the test at line 129).
UnknownNBytes == -1
\* The smallest declared byte count createFromWkb accepts (line 129).
MinWkbBytes == 5

\* ------------------------------------------------------------------- state
VARIABLES
    heap,       \* live geometry objects: id -> [kind, is3D, rings, kids, srs]
    ppoReturn,  \* the caller's output slot (*ppoReturn): NULL or an id
    call        \* the last call: its arguments, what it did, what it returned

vars == << heap, ppoReturn, call >>

\* ------------------------------------------------------------ geometry heap
Geom(kind) ==
    [ kind |-> kind, is3D |-> FALSE, rings |-> << >>, kids |-> << >>, srs |-> NULL ]

\* OGRGeometry::getGeometryType(): the class's kind, with the 2.5D bit when
\* the geometry holds 3D coordinates.
getGeometryType(h, g) ==
    IF h[g].is3D THEN h[g].kind + wkb25DBit ELSE h[g].kind

Range(s) == { s[i] : i \in 1..Len(s) }

RECURSIVE FreshIds(_, _, _)
\* The n smallest ids >= from that are not in used: what operator new returns.
FreshIds(used, n, from) ==
    IF n = 0 THEN << >>
    ELSE IF from \in used THEN FreshIds(used, n, from + 1)
    ELSE << from >> \o FreshIds(used, n - 1, from + 1)

NewId(h) == FreshIds(DOMAIN h, 1, 1)[1]

Alloc(h, id, rec) ==
    [ i \in DOMAIN h \cup {id} |-> IF i = id THEN rec ELSE h[i] ]

RECURSIVE Owned(_, _)
\* A geometry and everything its destructor frees with it.
Owned(h, g) ==
    {g} \cup UNION { Owned(h, h[g].kids[i]) : i \in 1..Len(h[g].kids) }

\* delete poGeom (delete of NULL does nothing).
Delete(h, g) ==
    IF g = NULL THEN h
    ELSE [ i \in DOMAIN h \ Owned(h, g) |-> h[i] ]

\* The geometries the caller holds directly: those that are no one's child.
Roots(h) ==
    { g \in DOMAIN h : \A p \in DOMAIN h : g \notin Range(h[p].kids) }

\* ------------------------------------------------- the delegated importers
\* What OGRGeometry::importFromWkb / importFromWkt (other files) leave in the
\* geometry they are called on: the coordinate dimension, the rings of a
\* polygon, the children of a container (kind and ring count of each).
Kid(kind, nRings) == [ kind |-> kind, nRings |-> nRings ]

PolygonKids ==
    { [ i \in 1..n |-> Kid(wkbPolygon, r) ] : n \in 0..MaxKids, r \in 1..MaxRings }

\* Collections may also hold a child that is no polygon.
MixedKids ==
    { [ i \in 1..Len(ks) |-> IF i = 1 THEN Kid(wkbPoint, 0) ELSE ks[i] ] :
        ks \in PolygonKids }

Fills(kind) ==
    { [ is3D |-> d, nRings |-> r, kids |-> ks ] :
        d \in BOOLEAN,
        r \in (IF kind = wkbPolygon THEN 0..MaxRings ELSE {0}),
        ks \in (IF kind = wkbMultiPolygon THEN PolygonKids
                ELSE IF kind = wkbGeometryCollection THEN PolygonKids \cup MixedKids
                ELSE { << >> }) }

RingsOf(g, n) == [ i \in 1..n |-> << g, i >> ]

\* The heap after an importer has built fill f into geometry g.
Build(h, g, f) ==
    LET ids == FreshIds(DOMAIN h, Len(f.kids), 1)
        h1  == [ h EXCEPT ![g].is3D = f.is3D,
                          ![g].rings = RingsOf(g, f.nRings),
                          ![g].kids = ids ]
    IN  [ i \in DOMAIN h \cup Range(ids) |->
            IF i \in DOMAIN h THEN h1[i]
            ELSE LET k == CHOOSE j \in 1..Len(ids) : ids[j] = i
                 IN  [ kind |-> f.kids[k].kind, is3D |-> f.is3D,
                       rings |-> RingsOf(i, f.kids[k].nRings),
                       kids |-> << >>, srs |-> NULL ] ]

\* The non-success codes an importer may return.
ImportErrs ==
    { OGRERR_NOT_ENOUGH_DATA, OGRERR_CORRUPT_DATA, OGRERR_NOT_ENOUGH_MEMORY }

\* What a failed import leaves behind: a partially built geometry, with at
\* most its first ring or its first child.
PartialFills(kind) ==
    { f \in Fills(kind) : ~f.is3D /\ f.nRings <= 1 /\ Len(f.kids) <= 1 }

\* An importer's outcome on a geometry of a kind: its return code and what it
\* built.
ImportOutcomes(kind) ==
    { [ err |-> OGRERR_NONE, fill |-> f ] : f \in Fills(kind) }
    \cup { [ err |-> e, fill |-> f ] : e \in ImportErrs, f \in PartialFills(kind) }

\* OGRGeometry::assignSpatialReference( poSR ).
assignSpatialReference(h, g, poSR) == [ h EXCEPT ![g].srs = poSR ]

SRSs == { NULL, 1 }

\* ------------------------------------------------------------ the last call
NoCall ==
    [ op |-> "none", heapBefore |-> << >>, slotBefore |-> NULL,
      pabyData |-> << >>, nBytes |-> 0, reads |-> {},
      pszText |-> << >>, cursorBefore |-> NULL, ppszData |-> NULL,
      szToken |-> << >>, importerCursor |-> NULL,
      poGeom |-> NULL, poGeomKind |-> NULL, importErr |-> "none", eErr |-> "none",
      arg |-> NULL, ret |-> NULL, crashed |-> FALSE ]

\* A process that has crashed takes no further step.
Running == ~call.crashed

\* The caller holds one geometry at a time and hands every result (NULL
\* after a failure) to destroyGeometry before it asks for the next one.
CallerIdle ==
    /\ Running
    /\ DOMAIN heap = {}
    /\ call.op \in { "none", "destroyGeometry" }

\* ---------------------------------------------------------- createGeometry
\* The class createGeometry instantiates for a type code, NULL for none.
createGeometry(eGeometryType) ==
    LET t == wkbFlatten(eGeometryType)
    IN  CASE t = wkbPoint -> wkbPoint
          [] t = wkbLineString -> wkbLineString
          [] t = wkbPolygon -> wkbPolygon
          [] t = wkbGeometryCollection -> wkbGeometryCollection
          [] t = wkbMultiPolygon -> wkbMultiPolygon
          [] t = wkbMultiPoint -> wkbMultiPoint
          [] t = wkbMultiLineString -> wkbMultiLineString
          [] OTHER -> NULL

\* The type codes callers pass: the seven kinds, their 2.5D forms, others.
TypeCodes ==
    0..8 \cup { k + wkb25DBit : k \in 0..8 } \cup { 255 }

CreateGeometry ==
    /\ CallerIdle
    /\ \E eGeometryType \in TypeCodes :
        LET kind == createGeometry(eGeometryType)
            id   == NewId(heap)
        IN  /\ heap' = IF kind = NULL THEN heap ELSE Alloc(heap, id, Geom(kind))
            /\ call' = [ NoCall EXCEPT !.op = "createGeometry", !.heapBefore = heap,
                                       !.arg = eGeometryType,
                                       !.ret = IF kind = NULL THEN NULL ELSE id ]
            /\ UNCHANGED ppoReturn

\* ----------------------------------------------------------- createFromWkb
\* The buffers: byte 0 is the byte-order byte, bytes 1 and 4 the two places
\* the type byte is read from; the other bytes are zero.
OrderBytes == { wkbXDR, wkbNDR, 2 }

TagBytes == 0..8 \cup { 255 }

Buffer(b0, b1, b4) ==
    [ i \in 0..8 |-> CASE i = 0 -> b0 [] i = 1 -> b1 [] i = 4 -> b4 [] OTHER -> 0 ]

Buffers == { Buffer(b0, b1, b4) : b0 \in OrderBytes, b1 \in TagBytes, b4 \in TagBytes }

NBytesVals == UnknownNBytes..MaxNBytes

\* Mutant: the slot is not cleared on entry.
SlotOnEntry_NotCleared(slot) == slot

\* *ppoReturn = NULL, first thing in both decoders (lines 127 and 242).
SlotOnEntry(slot) == NULL

\* Mutant: the length test is off by one.
WkbTooShort_OffByOne(nBytes) == nBytes < MinWkbBytes - 1 /\ nBytes # UnknownNBytes

\* nBytes < 5 && nBytes != -1 (line 129).
WkbTooShort(nBytes) == nBytes < MinWkbBytes /\ nBytes # UnknownNBytes

\* eByteOrder != wkbXDR && eByteOrder != wkbNDR (line 137).
ByteOrderCorrupt(eByteOrder) == eByteOrder # wkbXDR /\ eByteOrder # wkbNDR

\* The bytes handed to CPLDebug on corrupt data: pabyData[0] .. pabyData[8].
DebugBytes == 0..8

\* Mutant: the type byte is read at offset 1 whatever the byte order.
TypeOffset_IgnoresOrder(eByteOrder) == 1

\* The call reads bytes beyond the count the caller declared available.
OverRead(nBytes, reads) ==
    nBytes # UnknownNBytes /\ \E i \in reads : i >= nBytes

\* What a read beyond the declared bytes may do: being undefined, it either
\* goes unnoticed (FALSE) or ends the process (TRUE).
CrashOutcomes(nBytes, reads) ==
    IF OverRead(nBytes, reads) THEN BOOLEAN ELSE { FALSE }

\* Where the type byte is read (lines 159-162).
TypeOffset(eByteOrder) == IF eByteOrder = wkbNDR THEN 1 ELSE 4

\* The slot and the heap once the importer has returned (lines 181-189 and
\* 301-310): the geometry is handed over on success and deleted otherwise.
SlotAfterImport(eErr, poGeom, slot) == IF eErr = OGRERR_NONE THEN poGeom ELSE slot

\* Mutant: the geometry is not deleted when the import fails.
HeapAfterImport_Leak(h, eErr, poGeom, poSR) ==
    IF eErr = OGRERR_NONE THEN assignSpatialReference(h, poGeom, poSR) ELSE h


HeapAfterImport(h, eErr, poGeom, poSR) ==
    IF eErr = OGRERR_NONE THEN assignSpatialReference(h, poGeom, poSR)
    ELSE Delete(h, poGeom)

\* The code returned once the importer has returned (lines 191 and 312).
ReturnAfterImport(eErr) == eErr

CreateFromWkb ==
    /\ CallerIdle
    /\ \E pabyData \in Buffers, nBytes \in NBytesVals, poSR \in SRSs :
        LET slot == SlotOnEntry(ppoReturn)
            rec  == [ NoCall EXCEPT !.op = "createFromWkb", !.heapBefore = heap,
                                    !.slotBefore = ppoReturn,
                                    !.pabyData = pabyData, !.nBytes = nBytes ]
            eByteOrder == pabyData[0]
            eGeometryType == pabyData[TypeOffset(eByteOrder)]
            kind == createGeometry(eGeometryType)
            poGeom == NewId(heap)
        IN  IF WkbTooShort(nBytes) THEN
                /\ ppoReturn' = slot
                /\ call' = [ rec EXCEPT !.eErr = OGRERR_NOT_ENOUGH_DATA ]
                /\ UNCHANGED heap
            ELSE IF ByteOrderCorrupt(eByteOrder) THEN
                \E crashed \in CrashOutcomes(nBytes, {0} \cup DebugBytes) :
                    /\ ppoReturn' = slot
                    /\ call' = [ rec EXCEPT !.eErr = IF crashed THEN "none"
                                                     ELSE OGRERR_CORRUPT_DATA,
                                            !.reads = {0} \cup DebugBytes,
                                            !.crashed = crashed ]
                    /\ UNCHANGED heap
            ELSE IF kind = NULL THEN
                /\ ppoReturn' = slot
                /\ call' = [ rec EXCEPT !.eErr = OGRERR_UNSUPPORTED_GEOMETRY_TYPE,
                                        !.reads = {0, TypeOffset(eByteOrder)} ]
                /\ UNCHANGED heap
            ELSE \E out \in ImportOutcomes(kind) :
                LET built == Build(Alloc(heap, poGeom, Geom(kind)), poGeom, out.fill)
                IN  /\ heap' = HeapAfterImport(built, out.err, poGeom, poSR)
                    /\ ppoReturn' = SlotAfterImport(out.err, poGeom, slot)
                    /\ call' = [ rec EXCEPT !.eErr = ReturnAfterImport(out.err),
                                            !.importErr = out.err,
                                            !.poGeom = poGeom,
                                            !.poGeomKind = kind,
                                            !.reads = {0, TypeOffset(eByteOrder)} ]

\* ----------------------------------------------------------- createFromWkt
\* Text is a sequence of characters; a pointer into it is a position
\* 1 .. Len + 1, the last one being the terminating NUL.
LowerCase == << "a", "b", "c", "d", "e", "f", "g", "h", "i", "j", "k", "l", "m", "n", "o", "p", "q", "r", "s", "t", "u", "v", "w", "x", "y", "z" >>
UpperCase == << "A", "B", "C", "D", "E", "F", "G", "H", "I", "J", "K", "L", "M", "N", "O", "P", "Q", "R", "S", "T", "U", "V", "W", "X", "Y", "Z" >>

toupper(c) ==
    IF \E i \in 1..Len(LowerCase) : LowerCase[i] = c
    THEN UpperCase[CHOOSE i \in 1..Len(LowerCase) : LowerCase[i] = c]
    ELSE c

tolower(c) ==
    IF \E i \in 1..Len(UpperCase) : UpperCase[i] = c
    THEN LowerCase[CHOOSE i \in 1..Len(UpperCase) : UpperCase[i] = c]
    ELSE c

\* EQUAL(a,b): the strings are equal, letter case ignored (cpl_port.h).
EQUAL(a, b) ==
    /\ Len(a) = Len(b)
    /\ \A i \in 1..Len(a) : toupper(a[i]) = toupper(b[i])

KW_POINT == << "P", "O", "I", "N", "T" >>
KW_LINESTRING == << "L", "I", "N", "E", "S", "T", "R", "I", "N", "G" >>
KW_POLYGON == << "P", "O", "L", "Y", "G", "O", "N" >>
KW_GEOMETRYCOLLECTION == << "G", "E", "O", "M", "E", "T", "R", "Y", "C", "O", "L", "L", "E", "C", "T", "I", "O", "N" >>
KW_MULTIPOLYGON == << "M", "U", "L", "T", "I", "P", "O", "L", "Y", "G", "O", "N" >>
KW_MULTIPOINT == << "M", "U", "L", "T", "I", "P", "O", "I", "N", "T" >>
KW_MULTILINESTRING == << "M", "U", "L", "T", "I", "L", "I", "N", "E", "S", "T", "R", "I", "N", "G" >>
KW_CIRCLE == << "C", "I", "R", "C", "L", "E" >>
\* The size of the token buffer (ogr_p.h).
OGR_WKT_TOKEN_MAX == 64

NUL == "NUL"
CharAt(text, p) == IF p \in 1..Len(text) THEN text[p] ELSE NUL

WhiteSpace == { " ", "\t" }
Delimiters == { "(", ")", "," }
Digits == { "0", "1", "2", "3", "4", "5", "6", "7", "8", "9" }
TokenChars == Range(LowerCase) \cup Range(UpperCase) \cup Digits \cup { ".", "+", "-" }

RECURSIVE SkipWhite(_, _)
SkipWhite(text, p) ==
    IF CharAt(text, p) \in WhiteSpace THEN SkipWhite(text, p + 1) ELSE p

RECURSIVE WordEnd(_, _, _)
\* The end of the run of token characters that starts at p, at most n long.
WordEnd(text, p, n) ==
    IF n > 0 /\ CharAt(text, p) \in TokenChars THEN WordEnd(text, p + 1, n - 1) ELSE p

\* OGRWktReadToken( pszInput, szToken ): the token at the cursor and the
\* position after it; next is NULL when there is no token to read.
OGRWktReadToken(text, pszInput) ==
    IF pszInput = NULL THEN [ next |-> NULL, token |-> << >> ]
    ELSE LET p == SkipWhite(text, pszInput)
             q == IF CharAt(text, p) \in Delimiters THEN p + 1
                  ELSE WordEnd(text, p, OGR_WKT_TOKEN_MAX - 1)
         IN  IF q = p THEN [ next |-> NULL, token |-> << >> ]
             ELSE [ next |-> SkipWhite(text, q), token |-> SubSeq(text, p, q - 1) ]

\* The class instantiated for the first token (lines 253-291), NULL for none.
WktKind(szToken) ==
    IF EQUAL(szToken, KW_POINT) THEN wkbPoint
    ELSE IF EQUAL(szToken, KW_LINESTRING) THEN wkbLineString
    ELSE IF EQUAL(szToken, KW_POLYGON) THEN wkbPolygon
    ELSE IF EQUAL(szToken, KW_GEOMETRYCOLLECTION) THEN wkbGeometryCollection
    ELSE IF EQUAL(szToken, KW_MULTIPOLYGON) THEN wkbMultiPolygon
    ELSE IF EQUAL(szToken, KW_MULTIPOINT) THEN wkbMultiPoint
    ELSE IF EQUAL(szToken, KW_MULTILINESTRING) THEN wkbMultiLineString
    ELSE NULL

\* Mutant: the caller's cursor is moved whatever the importer returned.
CursorAfterImport_Always(eErr, pszInput, cursor) == pszInput

\* The caller's cursor on return (line 305): moved on success only.
CursorAfterImport(eErr, pszInput, cursor) ==
    IF eErr = OGRERR_NONE THEN pszInput ELSE cursor

\* The texts: an optional blank, a word, a tail.
Keywords ==
    { KW_POINT, KW_LINESTRING, KW_POLYGON, KW_GEOMETRYCOLLECTION,
      KW_MULTIPOLYGON, KW_MULTIPOINT, KW_MULTILINESTRING }

Lowered(w) == [ i \in 1..Len(w) |-> tolower(w[i]) ]
Capitalized(w) == [ i \in 1..Len(w) |-> IF i = 1 THEN w[i] ELSE tolower(w[i]) ]

Words ==
    Keywords \cup { Lowered(k) : k \in Keywords } \cup { Capitalized(k) : k \in Keywords }
    \cup { << >>, KW_POINT \o << "S" >>, SubSeq(KW_POINT, 1, 4), KW_CIRCLE,
           << "#" >>, << "(" >> }

Leads == { << >>, << " " >> }

Tails ==
    { << >>, << "(", "1", ")" >>, << " ", "(", "1", ")", " ", "Z" >> }

Texts == { l \o w \o t : l \in Leads, w \in Words, t \in Tails }

\* Where the caller's cursor stands in the text when it calls.
StartPositions(text) == { NULL } \cup { p \in 1..2 : p <= Len(text) + 1 }

\* importFromWkt( &pszInput ) reads the keyword again and moves its cursor
\* forward: it leaves it where it was, or anywhere from the end of the
\* keyword to the end of the text.
ImporterStops(text, pszInput) ==
    { pszInput } \cup OGRWktReadToken(text, pszInput).next..(Len(text) + 1)

CreateFromWkt ==
    /\ CallerIdle
    /\ \E text \in Texts, poSR \in SRSs :
       \E cursor \in StartPositions(text) :
        LET pszInput == cursor
            slot == SlotOnEntry(ppoReturn)
            rec  == [ NoCall EXCEPT !.op = "createFromWkt", !.heapBefore = heap,
                                    !.slotBefore = ppoReturn, !.pszText = text,
                                    !.cursorBefore = cursor, !.ppszData = cursor ]
            tok  == OGRWktReadToken(text, pszInput)
            kind == WktKind(tok.token)
            poGeom == NewId(heap)
        IN  IF tok.next = NULL THEN
                /\ ppoReturn' = slot
                /\ call' = [ rec EXCEPT !.eErr = OGRERR_CORRUPT_DATA ]
                /\ UNCHANGED heap
            ELSE IF kind = NULL THEN
                /\ ppoReturn' = slot
                /\ call' = [ rec EXCEPT !.eErr = OGRERR_UNSUPPORTED_GEOMETRY_TYPE,
                                        !.szToken = tok.token ]
                /\ UNCHANGED heap
            ELSE \E out \in ImportOutcomes(kind), stop \in ImporterStops(text, pszInput) :
                LET built == Build(Alloc(heap, poGeom, Geom(kind)), poGeom, out.fill)
                IN  /\ heap' = HeapAfterImport(built, out.err, poGeom, poSR)
                    /\ ppoReturn' = SlotAfterImport(out.err, poGeom, slot)
                    /\ call' = [ rec EXCEPT !.eErr = ReturnAfterImport(out.err),
                                            !.importErr = out.err,
                                            !.poGeom = poGeom,
                                            !.poGeomKind = kind,
                                            !.szToken = tok.token,
                                            !.importerCursor = stop,
                                            !.ppszData =
                                                CursorAfterImport(out.err, stop, cursor) ]

\* ---------------------------------------------------------- forceToPolygon
\* OGRPolygon's ring accessors (ogrpolygon.cpp): ring 0 is the exterior ring.
getExteriorRing(h, g) == IF Len(h[g].rings) > 0 THEN h[g].rings[1] ELSE NULL
getNumInteriorRings(h, g) == IF Len(h[g].rings) > 0 THEN Len(h[g].rings) - 1 ELSE 0
getInteriorRing(h, g, iRing) == h[g].rings[iRing + 2]

\* Mutant: the test with "and" in place of "or".
ReturnedAsIs_And(eType) ==
    /\ wkbFlatten(eType) # wkbGeometryCollection
    /\ wkbFlatten(eType) # wkbMultiPolygon

\* The test that returns the geometry as it is (lines 444-446).
ReturnedAsIs(eType) ==
    \/ wkbFlatten(eType) # wkbGeometryCollection
    \/ wkbFlatten(eType) # wkbMultiPolygon

RECURSIVE AggregateRings(_, _, _)
\* The rings the loop of lines 453-466 adds, from child iGeom (0-based) on:
\* of every child that is a polygon, the exterior ring and then the interior
\* rings in order.  (The children the importers build always have an exterior
\* ring, so addRing is never handed NULL.)
AggregateRings(h, poGC, iGeom) ==
    IF iGeom >= Len(h[poGC].kids) THEN << >>
    ELSE LET poOldPoly == h[poGC].kids[iGeom + 1]
         IN  ( IF wkbFlatten(getGeometryType(h, poOldPoly)) # wkbPolygon THEN << >>
               ELSE << getExteriorRing(h, poOldPoly) >>
                    \o [ iRing \in 1..getNumInteriorRings(h, poOldPoly) |->
                            getInteriorRing(h, poOldPoly, iRing - 1) ] )
             \o AggregateRings(h, poGC, iGeom + 1)

\* What forceToPolygon returns and the heap it leaves.
forceToPolygon(h, poGeom) ==
    IF poGeom = NULL THEN [ ret |-> NULL, heap |-> h ]
    ELSE IF ReturnedAsIs(getGeometryType(h, poGeom)) THEN [ ret |-> poGeom, heap |-> h ]
    ELSE LET poPolygon == NewId(h)
             poly == [ Geom(wkbPolygon) EXCEPT
                         !.rings = AggregateRings(h, poGeom, 0),
                         !.is3D = h[poGeom].is3D ]
         IN  [ ret |-> poPolygon, heap |-> Delete(Alloc(h, poPolygon, poly), poGeom) ]

ForceToPolygon ==
    /\ Running
    /\ \E poGeom \in Roots(heap) \cup {NULL} :
        LET r == forceToPolygon(heap, poGeom)
        IN  /\ heap' = r.heap
            /\ call' = [ NoCall EXCEPT !.op = "forceToPolygon", !.heapBefore = heap,
                                       !.arg = poGeom, !.ret = r.ret ]
            /\ UNCHANGED ppoReturn

\* ----------------------------------------------------- forceToMultiPolygon
\* OGRGeometryCollection::addGeometry: the geometry becomes the last child
\* of the container.
addGeometry(h, poMP, poGeom) ==
    [ h EXCEPT ![poMP].kids = Append(@, poGeom),
               ![poMP].is3D = @ \/ h[poGeom].is3D ]

\* Mutant: the type is compared without being flattened.
NotAPolygon_Unflattened(eType) == eType # wkbPolygon

\* The test that returns the geometry as it is (lines 493-494).
NotAPolygon(eType) == wkbFlatten(eType) # wkbPolygon

\* What forceToMultiPolygon returns and the heap it leaves.
forceToMultiPolygon(h, poGeom) ==
    IF poGeom = NULL THEN [ ret |-> NULL, heap |-> h ]
    ELSE IF NotAPolygon(getGeometryType(h, poGeom)) THEN [ ret |-> poGeom, heap |-> h ]
    ELSE LET poMP == NewId(h)
         IN  [ ret |-> poMP,
               heap |-> addGeometry(Alloc(h, poMP, Geom(wkbMultiPolygon)), poMP, poGeom) ]

ForceToMultiPolygon ==
    /\ Running
    /\ \E poGeom \in Roots(heap) \cup {NULL} :
        LET r == forceToMultiPolygon(heap, poGeom)
        IN  /\ heap' = r.heap
            /\ call' = [ NoCall EXCEPT !.op = "forceToMultiPolygon", !.heapBefore = heap,
                                       !.arg = poGeom, !.ret = r.ret ]
            /\ UNCHANGED ppoReturn

\* --------------------------------------------------------- destroyGeometry
DestroyGeometry ==
    /\ Running
    /\ \E poGeom \in Roots(heap) \cup {NULL} :
        /\ heap' = Delete(heap, poGeom)
        /\ call' = [ NoCall EXCEPT !.op = "destroyGeometry", !.arg = poGeom ]
        /\ UNCHANGED ppoReturn

Init ==
    /\ heap = << >>
    /\ ppoReturn = NULL
    /\ call = NoCall

Next ==
    \/ CreateGeometry
    \/ CreateFromWkb
    \/ CreateFromWkt
    \/ ForceToPolygon
    \/ ForceToMultiPolygon
    \/ DestroyGeometry

Spec == Init /\ [][Next]_vars

\* ================================================================== claims
IsDecode == call.op \in { "createFromWkb", "createFromWkt" }

\* C1: after createFromWkb or createFromWkt, whatever the output slot held
\* before, the slot is NULL when the call returned anything but OGRERR_NONE,
\* and holds the geometry the call created when it returned OGRERR_NONE.
C1_SlotNullOnFailure ==
    ( IsDecode /\ ~call.crashed ) =>
        IF call.eErr # OGRERR_NONE THEN ppoReturn = NULL
        ELSE /\ ppoReturn # NULL
             /\ ppoReturn = call.poGeom
             /\ ppoReturn \in DOMAIN heap
             /\ ppoReturn \notin DOMAIN call.heapBefore

\* A decoder failed while the slot held a pointer before the call.
C1_Witness ==
    /\ IsDecode
    /\ call.slotBefore # NULL
    /\ call.eErr # OGRERR_NONE
    /\ call.importErr = OGRERR_NOT_ENOUGH_MEMORY

C3_ZeroMeansUnknown ==
    ( call.op = "createFromWkb" /\ call.nBytes = 0 )
    => /\ call.eErr # OGRERR_NOT_ENOUGH_DATA
       /\ 0 \in call.reads

UpperCased(w) == [ i \in 1..Len(w) |-> toupper(w[i]) ]

KeywordKind(w) ==
    CASE w = KW_POINT -> wkbPoint
      [] w = KW_LINESTRING -> wkbLineString
      [] w = KW_POLYGON -> wkbPolygon
      [] w = KW_MULTIPOINT -> wkbMultiPoint
      [] w = KW_MULTILINESTRING -> wkbMultiLineString
      [] w = KW_MULTIPOLYGON -> wkbMultiPolygon
      [] w = KW_GEOMETRYCOLLECTION -> wkbGeometryCollection
      [] OTHER -> NULL

\* The decoder stopped on an unsupported type: nothing created, importer not
\* called, slot empty.
RejectedAsUnsupported ==
    /\ call.eErr = OGRERR_UNSUPPORTED_GEOMETRY_TYPE
    /\ ppoReturn = NULL
    /\ call.poGeom = NULL
    /\ call.importErr = "none"
    /\ heap = call.heapBefore

\* The importer was called on a new geometry of the given kind.
ImportedAs(kind) ==
    /\ call.poGeom # NULL
    /\ call.importErr # "none"
    /\ call.poGeomKind = kind

\* C4: createFromWkb, given a sufficient or unknown byte count and a known
\* byte order, takes the type from the byte at offset 1 (little-endian) or 4
\* (big-endian); createFromWkt takes it from the first token, letter case
\* ignored.  A type outside the seven kinds gives UnsupportedGeometryType
\* with nothing created and the importer not called; a type of the seven
\* kinds gives the importer a geometry of that kind.
C4_UnsupportedType ==
    /\ ( /\ call.op = "createFromWkb"
         /\ (call.nBytes = UnknownNBytes \/ call.nBytes >= 5)
         /\ call.pabyData[0] \in { wkbXDR, wkbNDR } )
       => LET tag == IF call.pabyData[0] = wkbNDR THEN call.pabyData[1]
                     ELSE call.pabyData[4]
          IN  IF wkbFlatten(tag) \in SevenKinds THEN ImportedAs(wkbFlatten(tag))
              ELSE RejectedAsUnsupported
    /\ ( call.op = "createFromWkt" /\ call.szToken # << >> )
       => LET word == UpperCased(call.szToken)
          IN  IF word \in Keywords THEN ImportedAs(KeywordKind(word))
              ELSE RejectedAsUnsupported

\* Big-endian buffer with a valid tag at offset 1 and an unknown one at 4.
C4_Witness ==
    /\ call.op = "createFromWkb"
    /\ call.nBytes = UnknownNBytes
    /\ call.pabyData[0] = wkbXDR
    /\ call.pabyData[1] = wkbPolygon
    /\ call.pabyData[4] = 8
    /\ call.eErr = OGRERR_UNSUPPORTED_GEOMETRY_TYPE

\* C5: a decoder returns the importer's code unchanged; after the call the
\* geometries it created that are still alive are exactly the one in the
\* output slot when it returned OGRERR_NONE, and none otherwise.
C5_NoLeakOnFailure ==
    ( IsDecode /\ ~call.crashed ) =>
        /\ call.importErr # "none" => call.eErr = call.importErr
        /\ IF call.eErr = OGRERR_NONE
           THEN /\ Roots(heap) \ DOMAIN call.heapBefore = { ppoReturn }
                /\ Cardinality({ call.poGeom } \cap DOMAIN heap) = 1
           ELSE /\ DOMAIN heap = DOMAIN call.heapBefore
                /\ Cardinality({ call.poGeom } \cap DOMAIN heap) = 0

\* The importer failed on a geometry the decoder had created.
C5_Witness ==
    /\ call.op = "createFromWkb"
    /\ call.poGeom # NULL
    /\ call.importErr = OGRERR_CORRUPT_DATA
    /\ call.eErr = OGRERR_CORRUPT_DATA
    /\ call.poGeom \notin DOMAIN heap

\* C6: createFromWkt leaves the caller's cursor where the importer left its
\* own when it returns OGRERR_NONE, and where it was before the call on
\* every other return.
C6_CursorMovesOnSuccessOnly ==
    call.op = "createFromWkt" =>
        IF call.eErr = OGRERR_NONE THEN call.ppszData = call.importerCursor
        ELSE call.ppszData = call.cursorBefore

\* The importer failed after it had moved its own cursor.
C6_Witness ==
    /\ call.op = "createFromWkt"
    /\ call.importErr \in ImportErrs
    /\ call.importerCursor > call.cursorBefore
    /\ call.ppszData = call.cursorBefore

C8_MultiPolygonCollapsed ==
    ( /\ call.op = "forceToPolygon"
      /\ call.arg # NULL
      /\ wkbFlatten(getGeometryType(call.heapBefore, call.arg)) = wkbMultiPolygon )
    => /\ call.ret # call.arg
       /\ call.arg \notin DOMAIN heap
       /\ call.ret \in DOMAIN heap
       /\ heap[call.ret].kind = wkbPolygon
       /\ \A k \in Range(call.heapBefore[call.arg].kids) :
            Range(call.heapBefore[k].rings) \subseteq Range(heap[call.ret].rings)

\* C9: forceToMultiPolygon returns NULL for NULL and a geometry that is no
\* polygon as it is, creating nothing; for a polygon (2D or 3D) it returns a
\* new multipolygon whose only child is that polygon, rings unchanged.
C9_ForceToMultiPolygon ==
    call.op = "forceToMultiPolygon" =>
        IF call.arg = NULL THEN call.ret = NULL /\ heap = call.heapBefore
        ELSE IF wkbFlatten(getGeometryType(call.heapBefore, call.arg)) # wkbPolygon
        THEN call.ret = call.arg /\ heap = call.heapBefore
        ELSE /\ call.ret \notin DOMAIN call.heapBefore
             /\ DOMAIN heap = DOMAIN call.heapBefore \cup { call.ret }
             /\ wkbFlatten(getGeometryType(heap, call.ret)) = wkbMultiPolygon
             /\ heap[call.ret].kids = << call.arg >>
             /\ \A g \in DOMAIN call.heapBefore : heap[g] = call.heapBefore[g]

\* forceToMultiPolygon was given a 3D polygon with two interior rings.
C9_Witness ==
    /\ call.op = "forceToMultiPolygon"
    /\ call.arg # NULL
    /\ getGeometryType(call.heapBefore, call.arg) = wkbPolygon + wkb25DBit
    /\ Len(call.heapBefore[call.arg].rings) = 3
    /\ call.ret # call.arg

\* C10: with a declared byte count of 5 or more, every index of the buffer
\* that createFromWkb itself reads is below the declared count.
C10_ReadsWithinDeclared ==
    ( call.op = "createFromWkb" /\ call.nBytes >= 5 )
    => \A i \in call.reads : i < call.nBytes

====
